---- MODULE Spec2Model ----
(***************************************************************************)
(* A model of ConsoleTable's TextTable (src/lib.py): the table's column    *)
(* and row store, sort_by, the cell formatter, the width computation, the  *)
(* subset renderer and the interactive viewer loop.                        *)
(*                                                                         *)
(* A Python str is a sequence of one-character strings.  Python indices    *)
(* are kept 0-based (start_col, temp_indices, col_indices); a list l is a  *)
(* TLA+ sequence, so l[i] of the source is l[i + 1] here.                  *)
(***************************************************************************)
EXTENDS Integers, Sequences, FiniteSets, TLC

VARIABLES
    columns,           \* self.columns: list of column dicts
    rows,              \* self.rows: list of lists of str
    horizontal_lines,  \* self.horizontal_lines
    style_name,        \* self.style_name
    raised,            \* the exception the last call raised, "none" if it returned
    output,            \* the str the last _generate_subset call returned
    subset,            \* the col_indices argument of that call
    pc,                \* position in view(): "idle", "frame", "key", "exited"
    start_col,         \* view(): start_col
    term_width,        \* view(): term_width
    temp_indices,      \* view(): temp_indices
    last_action,       \* view(): last_action
    nav_key,           \* view(): key
    presses            \* number of 'right' keys handled in a right-only session

vars == <<columns, rows, horizontal_lines, style_name, raised, output, subset,
          pc, start_col, term_width, temp_indices, last_action, nav_key, presses>>

tableVars == <<columns, rows, horizontal_lines, style_name>>
renderVars == <<output, subset>>
viewVars == <<pc, start_col, term_width, temp_indices, last_action, nav_key, presses>>

-----------------------------------------------------------------------------
(* Bounds of the explored inputs.                                          *)

MaxCols == 2
MaxRows == 2
MaxBatch == 2

\* max_width=None (and 0, which `not limit` treats alike)
NoLimit == 0

-----------------------------------------------------------------------------
(* Python built-ins used by the source.                                    *)

Min(a, b) == IF a < b THEN a ELSE b
Max(a, b) == IF a > b THEN a ELSE b

\* c * n
Rep(c, n) == [i \in 1..n |-> c]

\* text[:k], with Python's meaning of a negative k
SlicePrefix(text, k) ==
    LET stop == IF k >= 0 THEN Min(k, Len(text)) ELSE Max(Len(text) + k, 0)
    IN  SubSeq(text, 1, stop)

\* ord() of the characters the inputs are drawn from
Ord(c) ==
    CASE c = " " -> 32
      [] c = "0" -> 48
      [] c = "1" -> 49
      [] c = "2" -> 50
      [] c = "H" -> 72
      [] c = "a" -> 97
      [] c = "b" -> 98

Digits == {"0", "1", "2"}

\* str < str: lexicographic by code point
RECURSIVE StrLess(_, _)
StrLess(s, t) ==
    IF t = <<>> THEN FALSE
    ELSE IF s = <<>> THEN TRUE
    ELSE IF Ord(Head(s)) # Ord(Head(t)) THEN Ord(Head(s)) < Ord(Head(t))
    ELSE StrLess(Tail(s), Tail(t))

\* the decimal digits of a natural number
DigitChar(d) ==
    CASE d = 0 -> "0" [] d = 1 -> "1" [] d = 2 -> "2" [] d = 3 -> "3"
      [] d = 4 -> "4" [] d = 5 -> "5" [] d = 6 -> "6" [] d = 7 -> "7"
      [] d = 8 -> "8" [] d = 9 -> "9"

RECURSIVE DecDigits(_)
DecDigits(n) ==
    IF n < 10 THEN <<DigitChar(n)>>
    ELSE DecDigits(n \div 10) \o <<DigitChar(n % 10)>>

\* str(item): a str is itself, an int its decimal digits
Str(item) == IF item.type = "int" THEN DecDigits(item.val) ELSE item.val

\* int(s) on digit strings; anything else raises ValueError
RECURSIVE IntValue(_)
IntValue(s) ==
    IF s = <<>> THEN 0
    ELSE 10 * IntValue(SubSeq(s, 1, Len(s) - 1)) + (Ord(s[Len(s)]) - 48)

IntParses(s) == s # <<>> /\ \A i \in 1..Len(s) : s[i] \in Digits

-----------------------------------------------------------------------------
(* Table construction: __init__, add_column, add_row, add_rows.            *)

ColumnDef(header_name, align, max_width, overflow) ==
    [header |-> header_name, align |-> align,
     max_width |-> max_width, overflow |-> overflow]

add_column(header_name, align, max_width, overflow) ==
    /\ columns' = Append(columns, ColumnDef(header_name, align, max_width, overflow))
    /\ raised' = "none"
    /\ UNCHANGED <<rows, horizontal_lines, style_name>>
    /\ UNCHANGED renderVars
    /\ UNCHANGED viewVars

\* a mutation of add_row: the row is appended before the arity is checked
add_row_AppendFirst(args) ==
    /\ rows' = Append(rows, [i \in 1..Len(args) |-> Str(args[i])])
    /\ raised' = IF Len(args) # Len(columns) THEN "ValueError: Expected columns"
                 ELSE "none"
    /\ UNCHANGED <<columns, horizontal_lines, style_name>>
    /\ UNCHANGED renderVars
    /\ UNCHANGED viewVars

add_row(args) ==
    /\ IF Len(args) # Len(columns)
       THEN /\ raised' = "ValueError: Expected columns"
            /\ rows' = rows
       ELSE /\ rows' = Append(rows, [i \in 1..Len(args) |-> Str(args[i])])
            /\ raised' = "none"
    /\ UNCHANGED <<columns, horizontal_lines, style_name>>
    /\ UNCHANGED renderVars
    /\ UNCHANGED viewVars

\* the rows add_rows appends before it stops: the longest prefix of data_list
\* whose rows all have the table's arity
RECURSIVE GoodPrefix(_)
GoodPrefix(data_list) ==
    IF data_list = <<>> \/ Len(Head(data_list)) # Len(columns) THEN <<>>
    ELSE <<Head(data_list)>> \o GoodPrefix(Tail(data_list))

add_rows(data_list) ==
    LET good == GoodPrefix(data_list)
    IN  /\ rows' = rows \o [k \in 1..Len(good) |->
                              [i \in 1..Len(good[k]) |-> Str(good[k][i])]]
        /\ raised' = IF Len(good) < Len(data_list)
                     THEN "ValueError: Expected columns" ELSE "none"
        /\ UNCHANGED <<columns, horizontal_lines, style_name>>
        /\ UNCHANGED renderVars
        /\ UNCHANGED viewVars

-----------------------------------------------------------------------------
(* sort_by.                                                                *)

\* step 1: the index of the first column whose header is header_name, -1 if none
FindColumn(header_name) ==
    LET hits == {i \in 0..(Len(columns) - 1) : columns[i + 1].header = header_name}
    IN  IF hits = {} THEN -1 ELSE CHOOSE i \in hits : \A j \in hits : i <= j

\* step 2: sort_func(row); a key is tagged with its Python type
SortFunc(row, col_idx, key) ==
    LET val == row[col_idx + 1]
    IN  IF key = "none" THEN [type |-> "str", val |-> val]
        ELSE IF IntParses(val) THEN [type |-> "int", val |-> IntValue(val)]
        ELSE [type |-> "str", val |-> val]

\* k1 < k2 for two keys of the same type
KeyLess(k1, k2) ==
    IF k1.type = "int" THEN k1.val < k2.val ELSE StrLess(k1.val, k2.val)

\* whether row r must come before row e in the sorted list
ComesBefore(r, e, col_idx, key, reverse) ==
    IF reverse THEN KeyLess(SortFunc(e, col_idx, key), SortFunc(r, col_idx, key))
    ELSE KeyLess(SortFunc(r, col_idx, key), SortFunc(e, col_idx, key))

\* list.sort is stable, also with reverse=True: a row goes after every row
\* already placed that it need not precede
InsertRow(acc, r, col_idx, key, reverse) ==
    LET firstAfter == {i \in 1..Len(acc) : ComesBefore(r, acc[i], col_idx, key, reverse)}
        pos == IF firstAfter = {} THEN Len(acc) + 1
               ELSE CHOOSE i \in firstAfter : \A j \in firstAfter : i <= j
    IN  SubSeq(acc, 1, pos - 1) \o <<r>> \o SubSeq(acc, pos, Len(acc))

RECURSIVE StableSort(_, _, _, _)
StableSort(rs, col_idx, key, reverse) ==
    IF rs = <<>> THEN <<>>
    ELSE InsertRow(StableSort(SubSeq(rs, 1, Len(rs) - 1), col_idx, key, reverse),
                   rs[Len(rs)], col_idx, key, reverse)

\* the orders a list can be left in when a comparison raises during list.sort
Rearrangements(rs) ==
    {[i \in 1..Len(rs) |-> rs[p[i]]] : p \in Permutations(1..Len(rs))}

\* int < str raises TypeError: a sort of two or more rows compares keys of
\* both types as soon as both occur
MixedKeys(rs, col_idx, key) ==
    \E i, j \in 1..Len(rs) :
        SortFunc(rs[i], col_idx, key).type # SortFunc(rs[j], col_idx, key).type

sort_by(header_name, key, reverse) ==
    LET col_idx == FindColumn(header_name)
    IN  /\ IF col_idx = -1
           THEN /\ raised' = "ValueError: Column not found"
                /\ rows' = rows
           ELSE IF \E i \in 1..Len(rows) : Len(rows[i]) <= col_idx
           THEN \* row[col_idx] raises in sort_func, before any row is moved
                /\ raised' = "IndexError"
                /\ rows' = rows
           ELSE IF MixedKeys(rows, col_idx, key)
           THEN /\ raised' = "TypeError"
                /\ rows' \in Rearrangements(rows)
           ELSE /\ raised' = "none"
                /\ rows' = StableSort(rows, col_idx, key, reverse)
        /\ UNCHANGED <<columns, horizontal_lines, style_name>>
        /\ UNCHANGED renderVars
        /\ UNCHANGED viewVars

-----------------------------------------------------------------------------
(* textwrap.wrap(text, width=limit), as _process_cell calls it: the        *)
(* defaults break_long_words, drop_whitespace and break_on_hyphens are on, *)
(* the indents are empty and max_lines is None.  The texts explored hold   *)
(* letters and spaces only, so _munge_whitespace changes nothing and no    *)
(* chunk holds a hyphen.                                                   *)

\* chunk.strip() == ''
IsBlank(chunk) == \A i \in 1..Len(chunk) : chunk[i] = " "

\* ''.join(parts)
RECURSIVE Concat(_)
Concat(parts) == IF parts = <<>> THEN <<>> ELSE Head(parts) \o Concat(Tail(parts))

\* TextWrapper._split: the maximal runs of spaces and of non-spaces, in order
RECURSIVE SplitChunks(_)
SplitChunks(text) ==
    IF text = <<>> THEN <<>>
    ELSE LET same(i) == (text[i] = " ") = (text[1] = " ")
             breaks == {i \in 1..Len(text) : ~same(i)}
             n == IF breaks = {} THEN Len(text)
                  ELSE (CHOOSE i \in breaks : \A j \in breaks : i <= j) - 1
         IN  <<SubSeq(text, 1, n)>> \o SplitChunks(SubSeq(text, n + 1, Len(text)))

\* the inner loop of _wrap_chunks: chunks move to the line while they fit
RECURSIVE FillLine(_, _, _, _)
FillLine(chunks, cur_line, cur_len, width) ==
    IF chunks # <<>> /\ cur_len + Len(Head(chunks)) <= width
    THEN FillLine(Tail(chunks), Append(cur_line, Head(chunks)),
                  cur_len + Len(Head(chunks)), width)
    ELSE [cur_line |-> cur_line, cur_len |-> cur_len, chunks |-> chunks]

\* a mutation of _handle_long_word: break_long_words is off
HandleLongWord_NoBreak(chunks, cur_line, cur_len, width) ==
    IF cur_line = <<>>
    THEN [cur_line |-> <<Head(chunks)>>, chunks |-> Tail(chunks)]
    ELSE [cur_line |-> cur_line, chunks |-> chunks]

\* TextWrapper._handle_long_word with break_long_words on
HandleLongWord(chunks, cur_line, cur_len, width) ==
    LET space_left == IF width < 1 THEN 1 ELSE width - cur_len
        chunk == Head(chunks)
    IN  [cur_line |-> Append(cur_line, SlicePrefix(chunk, space_left)),
         chunks |-> <<SubSeq(chunk, Min(space_left, Len(chunk)) + 1, Len(chunk))>>
                    \o Tail(chunks)]

\* TextWrapper._wrap_chunks: one pass of the outer loop per line
RECURSIVE WrapChunks(_, _, _)
WrapChunks(chunks, width, lines) ==
    IF chunks = <<>> THEN lines
    ELSE LET start == IF IsBlank(Head(chunks)) /\ lines # <<>>
                      THEN Tail(chunks) ELSE chunks
             filled == FillLine(start, <<>>, 0, width)
             long == IF filled.chunks # <<>> /\ Len(Head(filled.chunks)) > width
                     THEN HandleLongWord(filled.chunks, filled.cur_line,
                                         filled.cur_len, width)
                     ELSE [cur_line |-> filled.cur_line, chunks |-> filled.chunks]
             cur_line == IF long.cur_line # <<>>
                            /\ IsBlank(long.cur_line[Len(long.cur_line)])
                         THEN SubSeq(long.cur_line, 1, Len(long.cur_line) - 1)
                         ELSE long.cur_line
         IN  WrapChunks(long.chunks, width,
                        IF cur_line # <<>> THEN Append(lines, Concat(cur_line))
                        ELSE lines)

Wrap(text, width) == WrapChunks(SplitChunks(text), width, <<>>)

-----------------------------------------------------------------------------
(* _process_cell.                                                          *)

Ellipsis == <<".", ".", ".">>

ProcessCell(text, col_idx) ==
    LET col_def == columns[col_idx + 1]
        limit == col_def.max_width
        mode == col_def.overflow
    IN  IF limit = NoLimit \/ mode = "ignore" THEN <<text>>
        ELSE IF mode = "truncate"
        THEN IF Len(text) > limit
             THEN <<SlicePrefix(text, limit - 3) \o Ellipsis>> ELSE <<text>>
        ELSE IF mode = "wrap"
        THEN LET wrapped == Wrap(text, limit)
             IN  IF wrapped # <<>> THEN wrapped ELSE <<<<>>>>
        ELSE <<text>>

-----------------------------------------------------------------------------
(* _build_separator and _generate_subset.                                  *)

\* STYLES; a box-drawing glyph is written as its code point
STYLES(style) ==
    IF style = "box"
    THEN [h_line |-> "U+2500", v_line |-> "U+2502",
          top_left |-> "U+250C", top_right |-> "U+2510", top_intersect |-> "U+252C",
          bot_left |-> "U+2514", bot_right |-> "U+2518", bot_intersect |-> "U+2534",
          mid_left |-> "U+251C", mid_right |-> "U+2524", mid_intersect |-> "U+253C",
          corner |-> "+", intersect |-> "U+253C"]
    ELSE [h_line |-> "-", v_line |-> "|", corner |-> "|", intersect |-> "|"]

\* sep.join(parts)
RECURSIVE Join(_, _)
Join(sep, parts) ==
    IF parts = <<>> THEN <<>>
    ELSE IF Len(parts) = 1 THEN parts[1]
    ELSE parts[1] \o sep \o Join(sep, Tail(parts))

BuildSeparator(col_widths, position) ==
    LET s == STYLES(style_name)
    IN  IF style_name = "markdown"
        THEN <<"|">> \o Join(<<"|">>, [i \in 1..Len(col_widths) |->
                                          Rep("-", col_widths[i] + 2)]) \o <<"|">>
        ELSE LET left == IF position = "top" THEN s.top_left
                         ELSE IF position = "bottom" THEN s.bot_left ELSE s.mid_left
                 right == IF position = "top" THEN s.top_right
                          ELSE IF position = "bottom" THEN s.bot_right ELSE s.mid_right
                 cross == IF position = "top" THEN s.top_intersect
                          ELSE IF position = "bottom" THEN s.bot_intersect
                          ELSE s.mid_intersect
                 line_parts == [i \in 1..Len(col_widths) |->
                                   Rep(s.h_line, col_widths[i] + 2)]
             IN  <<left>> \o Join(<<cross>>, line_parts) \o <<right>>

\* step 1 of _generate_subset, for one selected column
ColWidth(real_idx) ==
    LET col == columns[real_idx + 1]
        limit == col.max_width
        header_len == Len(col.header)
        cell_len(r) ==
            IF col.overflow = "truncate" /\ limit # NoLimit
            THEN Min(Len(rows[r][real_idx + 1]), limit)
            ELSE Len(rows[r][real_idx + 1])
        lens == {header_len} \cup {cell_len(r) : r \in 1..Len(rows)}
    IN  IF col.overflow = "wrap" /\ limit # NoLimit
        THEN Max(header_len, limit)
        ELSE CHOOSE m \in lens : \A l \in lens : l <= m

\* f" {part:{align}{width}} "
FormatCell(part, align, width) ==
    LET pad == Max(width - Len(part), 0)
        lpad == IF align = "right" THEN pad
                ELSE IF align = "center" THEN pad \div 2 ELSE 0
    IN  <<" ">> \o Rep(" ", lpad) \o part \o Rep(" ", pad - lpad) \o <<" ">>

\* format_line
FormatLine(line_parts, col_widths, col_indices) ==
    LET v_line == STYLES(style_name).v_line
        cells == [i \in 1..Len(line_parts) |->
                     FormatCell(line_parts[i], columns[col_indices[i] + 1].align,
                                col_widths[i])]
    IN  <<v_line>> \o Join(<<v_line>>, cells) \o <<v_line>>

\* row_height of a row for the selected columns
RowHeight(row, col_indices) ==
    LET hs == {Len(ProcessCell(row[col_indices[i] + 1], col_indices[i])) :
                   i \in 1..Len(col_indices)}
    IN  CHOOSE m \in hs : \A h \in hs : h <= m

\* the lines one row contributes
RowLines(row, col_widths, col_indices) ==
    LET formatted_cells == [i \in 1..Len(col_indices) |->
                               ProcessCell(row[col_indices[i] + 1], col_indices[i])]
        row_height == RowHeight(row, col_indices)
    IN  [line_idx \in 1..row_height |->
            FormatLine([i \in 1..Len(col_indices) |->
                           IF line_idx <= Len(formatted_cells[i])
                           THEN formatted_cells[i][line_idx] ELSE <<>>],
                       col_widths, col_indices)]

\* a mutation of the row loop: the row separator also follows the last row
BodyLines_SeparatorAfterEach(row_idx, col_widths, col_indices) ==
    RowLines(rows[row_idx], col_widths, col_indices)
    \o (IF horizontal_lines THEN <<BuildSeparator(col_widths, "middle")>> ELSE <<>>)

\* one pass of the loop over self.rows (row_idx is 1-based here)
BodyLines(row_idx, col_widths, col_indices) ==
    RowLines(rows[row_idx], col_widths, col_indices)
    \o (IF horizontal_lines /\ row_idx < Len(rows)
        THEN <<BuildSeparator(col_widths, "middle")>> ELSE <<>>)

\* "\n".join(lines)
JoinLines(lines) == Join(<<"\n">>, lines)

GenerateSubset(col_indices) ==
    IF col_indices = <<>>
    THEN <<"N", "o", " ", "c", "o", "l", "u", "m", "n", "s", " ", "t", "o", " ",
           "d", "i", "s", "p", "l", "a", "y", ".">>
    ELSE LET col_widths == [i \in 1..Len(col_indices) |-> ColWidth(col_indices[i])]
             top == IF style_name = "box"
                    THEN <<BuildSeparator(col_widths, "top")>> ELSE <<>>
             header_names == [i \in 1..Len(col_indices) |->
                                 columns[col_indices[i] + 1].header]
             head == <<FormatLine(header_names, col_widths, col_indices),
                       BuildSeparator(col_widths, IF style_name = "box"
                                                  THEN "middle" ELSE "markdown")>>
             body == Concat([r \in 1..Len(rows) |->
                                BodyLines(r, col_widths, col_indices)])
             bottom == IF style_name = "box"
                       THEN <<BuildSeparator(col_widths, "bottom")>> ELSE <<>>
         IN  JoinLines(top \o head \o body \o bottom)

\* generate()
Generate ==
    IF columns = <<>> THEN <<>>
    ELSE GenerateSubset([i \in 1..Len(columns) |-> i - 1])

-----------------------------------------------------------------------------
(* The table as a state machine.                                           *)

Headers == {<<"a">>, <<"b">>}
\* the values passed as cells: a str that int() rejects and an int
Items == {[type |-> "str", val |-> <<"a">>], [type |-> "int", val |-> 10]}
\* the values passed to add_row: any values when there are as many as the
\* table has columns, one value repeated for every other count
ArgLists ==
    [1..Len(columns) -> Items]
        \cup {[i \in 1..n |-> it] : n \in 0..(MaxCols + 1), it \in Items}
\* the rows passed to add_rows: one value repeated, as many values as the
\* table has columns or one more
BatchRows == {[i \in 1..n |-> it] : n \in {Len(columns), Len(columns) + 1}, it \in Items}
\* the lists passed to add_rows; add_rows reads no row after the first one of
\* the wrong length, so such a row comes last
Batches ==
    {b \in UNION {[1..n -> BatchRows] : n \in 0..MaxBatch} :
        \A k \in 1..(Len(b) - 1) : Len(b[k]) = Len(columns)}
Keys == {"none", "int"}

\* no generate call has returned yet
NothingRendered ==
    /\ output = <<>>
    /\ subset = <<>>

\* view() has not been called
ViewerIdle ==
    /\ pc = "idle"
    /\ start_col = 0
    /\ term_width = 0
    /\ temp_indices = <<>>
    /\ last_action = "Waiting for input..."
    /\ nav_key = "None"
    /\ presses = 0

Init ==
    /\ columns = <<>>
    /\ rows = <<>>
    /\ horizontal_lines = FALSE
    /\ style_name = "markdown"
    /\ raised = "none"
    /\ NothingRendered
    /\ ViewerIdle

AddColumn ==
    \E h \in Headers :
        /\ Len(columns) < MaxCols
        /\ add_column(h, "left", NoLimit, "truncate")

AddRow ==
    \E args \in ArgLists :
        /\ Len(args) # Len(columns) \/ Len(rows) < MaxRows
        /\ add_row(args)

AddRows ==
    \E data_list \in Batches :
        /\ Len(rows) + Len(GoodPrefix(data_list)) <= MaxRows
        /\ add_rows(data_list)

SortBy ==
    \E h \in Headers, key \in Keys, reverse \in BOOLEAN :
        sort_by(h, key, reverse)

Next == AddColumn \/ AddRow \/ AddRows \/ SortBy

Spec == Init /\ [][Next]_vars

-----------------------------------------------------------------------------
(* Rendering: generate and _generate_subset as calls on a finished table.  *)

\* row[real_idx] raises IndexError for a row shorter than a selected column
ShortRow(ci) ==
    \E r \in 1..Len(rows), i \in 1..Len(ci) : Len(rows[r]) <= ci[i]

generate_subset(ci) ==
    /\ subset' = ci
    /\ IF ci # <<>> /\ ShortRow(ci)
       THEN /\ raised' = "IndexError"
            /\ output' = output
       ELSE /\ raised' = "none"
            /\ output' = GenerateSubset(ci)
    /\ UNCHANGED tableVars
    /\ UNCHANGED viewVars

generate ==
    /\ subset' = [i \in 1..Len(columns) |-> i - 1]
    /\ IF columns # <<>> /\ ShortRow([i \in 1..Len(columns) |-> i - 1])
       THEN /\ raised' = "IndexError"
            /\ output' = output
       ELSE /\ raised' = "none"
            /\ output' = Generate
    /\ UNCHANGED tableVars
    /\ UNCHANGED viewVars

\* range(a, b)
Range(a, b) == [i \in 1..(b - a) |-> a + i - 1]

Aligns == {"left", "center", "right"}
Overflows == {"truncate", "wrap", "ignore"}
StyleNames == {"markdown", "box"}

\* all strings over an alphabet, up to a length
StringsUpTo(alphabet, n) == UNION {[1..k -> alphabet] : k \in 0..n}

(* One column and at most one row: every header length, alignment, width   *)
(* cap and overflow mode against every cell text of letters and spaces.    *)

MaxHeaderLen == 2
MaxLimit == 4
MaxTextLen == 4

CellTexts == StringsUpTo({"a", " "}, MaxTextLen)

InitColumn ==
    /\ \E n \in 0..MaxHeaderLen, align \in Aligns, max_width \in NoLimit..MaxLimit,
          overflow \in Overflows :
           columns = <<ColumnDef(Rep("H", n), align, max_width, overflow)>>
    /\ rows \in {<<>>} \cup {<<<<text>>>> : text \in CellTexts}
    /\ horizontal_lines = FALSE
    /\ style_name \in StyleNames
    /\ raised = "none"
    /\ NothingRendered
    /\ ViewerIdle

\* rendering leaves the table as it is, so one call per table is explored
GenerateCall ==
    /\ subset = <<>>
    /\ generate

SpecColumn == InitColumn /\ [][GenerateCall]_vars

(* Several columns and rows: every alignment, three overflow settings of   *)
(* differing cell height, every contiguous column subset.                  *)

RenderModes == {<<"truncate", NoLimit>>, <<"wrap", 1>>, <<"ignore", 1>>}
RenderColumns == {ColumnDef(<<"H">>, align, mode[2], mode[1]) :
                     align \in Aligns, mode \in RenderModes}
RenderTexts == {<<"a">>, <<"a", " ", "a">>}

InitRender ==
    /\ \E nc \in 1..MaxCols : columns \in [1..nc -> RenderColumns]
    /\ \E nr \in 0..MaxRows : \E texts \in [1..nr -> RenderTexts] :
           rows = [r \in 1..nr |-> [c \in 1..Len(columns) |-> texts[r]]]
    /\ horizontal_lines \in BOOLEAN
    /\ style_name \in StyleNames
    /\ raised = "none"
    /\ NothingRendered
    /\ ViewerIdle

GenerateSubsetCall ==
    \E a \in 0..(Len(columns) - 1) : \E b \in (a + 1)..Len(columns) :
        /\ subset = <<>>
        /\ generate_subset(Range(a, b))

NextRender == GenerateCall \/ GenerateSubsetCall

SpecRender == InitRender /\ [][NextRender]_vars

-----------------------------------------------------------------------------
(* view(): the interactive viewer loop.                                    *)

BorderWidth == 4
MinEstWidth == 15
EstMargin == 3
FallbackWidth == 80
TermSafety == 2

\* step 2: os.get_terminal_size().columns - 2
TermWidth(term_columns) == term_columns - TermSafety

\* est_width of column i
EstWidth(i) == Max(Len(columns[i + 1].header), MinEstWidth) + EstMargin

\* the loop of step 3, from column i on: columns are taken while they fit
RECURSIVE Accumulate(_, _, _, _)
Accumulate(i, used_width, indices, width) ==
    IF i < Len(columns) /\ used_width + EstWidth(i) < width
    THEN Accumulate(i + 1, used_width + EstWidth(i), Append(indices, i), width)
    ELSE indices

\* a mutation of step 3: the safety that shows at least one column is left out
TempIndices_NoSafety(start, width) ==
    Accumulate(start, BorderWidth, <<>>, width)

\* step 3: temp_indices
TempIndices(start, width) ==
    LET fit == Accumulate(start, BorderWidth, <<>>, width)
    IN  IF fit = <<>> /\ start < Len(columns) THEN <<start>> ELSE fit

\* view() is entered: its locals are set (total_cols is len(self.columns),
\* which nothing changes while the loop runs)
view_enter ==
    /\ pc \in {"idle", "exited"}
    /\ pc' = "frame"
    /\ start_col' = 0
    /\ last_action' = "Waiting for input..."
    /\ UNCHANGED <<term_width, temp_indices, nav_key, presses>>
    /\ UNCHANGED tableVars
    /\ UNCHANGED <<raised, output, subset>>

\* steps 1 to 4 of one pass: the terminal is measured and the window computed;
\* the text of _generate_subset(temp_indices) is printed, not kept
view_frame(width) ==
    /\ pc = "frame"
    /\ term_width' = width
    /\ temp_indices' = TempIndices(start_col, width)
    /\ pc' = "key"
    /\ UNCHANGED <<start_col, last_action, nav_key, presses>>
    /\ UNCHANGED tableVars
    /\ UNCHANGED <<raised, output, subset>>

\* a mutation of step 5: 'left' moves without looking at start_col
StepLeft_Unguarded(start) ==
    [start_col |-> start - 1, last_action |-> "Action: Scrolled Left"]

StepLeft(start) ==
    IF start > 0
    THEN [start_col |-> start - 1, last_action |-> "Action: Scrolled Left"]
    ELSE [start_col |-> start, last_action |-> "Action: Already at start"]

\* a mutation of step 5: 'right' stops one column early
StepRight_StopsEarly(start, visible, total_cols) ==
    IF start + visible + 1 < total_cols
    THEN [start_col |-> start + 1, last_action |-> "Action: Scrolled Right"]
    ELSE [start_col |-> start, last_action |-> "Action: End of columns reached"]

StepRight(start, visible, total_cols) ==
    IF start + visible < total_cols
    THEN [start_col |-> start + 1, last_action |-> "Action: Scrolled Right"]
    ELSE [start_col |-> start, last_action |-> "Action: End of columns reached"]

\* step 5: key = InputHelper.get_key() returned k, and the branch taken on it
view_key(k) ==
    /\ pc = "key"
    /\ nav_key' = k
    /\ IF k = "q"
       THEN /\ pc' = "exited"
            /\ UNCHANGED <<start_col, last_action>>
       ELSE /\ pc' = "frame"
            /\ LET step == IF k = "right"
                           THEN StepRight(start_col, Len(temp_indices), Len(columns))
                           ELSE IF k = "left" THEN StepLeft(start_col)
                           ELSE [start_col |-> start_col,
                                 last_action |-> "Action: Key ignored or unknown"]
               IN  /\ start_col' = step.start_col
                   /\ last_action' = step.last_action
    /\ UNCHANGED <<term_width, temp_indices>>
    /\ UNCHANGED tableVars
    /\ UNCHANGED <<raised, output, subset>>

\* what InputHelper.get_key returns
NavKeys == {"q", "right", "left", "None"}

\* os.get_terminal_size().columns, when it does not raise
TermColumns == {2, 24, 30, 45, 66, 82, 100}

\* the values step 2 gives term_width: from a size, or 80 after an OSError
TermWidths == {TermWidth(c) : c \in TermColumns} \cup {FallbackWidth}

(* The tables viewed: every list of short and long headers up to a length, *)
(* and the table of src/example.py.                                        *)

MaxViewCols == 4
ShortHeaderLen == 9
LongHeaderLen == 20

ExampleCols == 39
ExampleRows == 5
ExampleMaxWidth == 10

ViewColumns == {ColumnDef(Rep("H", n), "left", NoLimit, "truncate") :
                   n \in {ShortHeaderLen, LongHeaderLen}}

ExampleColumns ==
    [i \in 1..ExampleCols |->
        ColumnDef(<<"C", "o", "l", "u", "m", "n", "_">> \o DecDigits(i),
                  "center", ExampleMaxWidth, "truncate")]

ExampleData ==
    [r \in 1..ExampleRows |->
        [c \in 1..ExampleCols |->
            <<"D", "a", "t", "a", "_">> \o DecDigits(r - 1) \o <<"_">> \o DecDigits(c)]]

InitView ==
    /\ \/ /\ \E n \in 0..MaxViewCols : columns \in [1..n -> ViewColumns]
          /\ rows = <<>>
          /\ horizontal_lines = FALSE
          /\ style_name = "markdown"
       \/ /\ columns = ExampleColumns
          /\ rows = ExampleData
          /\ horizontal_lines = TRUE
          /\ style_name = "box"
    /\ raised = "none"
    /\ NothingRendered
    /\ ViewerIdle

ViewEnter == view_enter /\ presses' = presses

ViewFrame == \E width \in TermWidths : view_frame(width)

ViewKey == \E k \in NavKeys : view_key(k) /\ presses' = presses

NextView == ViewEnter \/ ViewFrame \/ ViewKey

SpecView == InitView /\ [][NextView]_vars

(* A session in which the terminal keeps its width and every key is        *)
(* 'right'; presses counts the keys handled.                               *)

ViewEnterOnce == pc = "idle" /\ view_enter

ViewFrameSameWidth ==
    \E width \in TermWidths :
        /\ view_frame(width)
        /\ presses > 0 => term_width' = term_width

PressRight ==
    /\ presses <= Len(columns)
    /\ view_key("right")
    /\ presses' = presses + 1

NextRight == ViewEnterOnce \/ ViewFrameSameWidth \/ PressRight

SpecRight == InitView /\ [][NextRight]_vars

-----------------------------------------------------------------------------
(* Properties.                                                             *)

\* text.split("\n")
RECURSIVE SplitLines(_)
SplitLines(text) ==
    LET breaks == {i \in 1..Len(text) : text[i] = "\n"}
    IN  IF breaks = {} THEN <<text>>
        ELSE LET n == CHOOSE i \in breaks : \A j \in breaks : i <= j
             IN  <<SubSeq(text, 1, n - 1)>> \o SplitLines(SubSeq(text, n + 1, Len(text)))

RECURSIVE Sum(_)
Sum(ns) == IF ns = <<>> THEN 0 ELSE Head(ns) + Sum(Tail(ns))

WellFormed == \A r \in 1..Len(rows) : Len(rows[r]) = Len(columns)

\* a rendering call has returned a table (the render specifications draw
\* tables of one column or more, so a call always selects some column)
Rendered == subset # <<>> /\ raised = "none"

(* C1: in every frame of view(), whatever keys were read and whatever      *)
(* widths the terminal reported, the visible columns are the contiguous    *)
(* ascending range start_col .. start_col+k-1 with 0 <= start_col, k >= 1  *)
(* when the table has a column, and start_col + k <= total_cols.           *)
C1_VisibleWindow ==
    /\ start_col >= 0
    /\ pc = "key" =>
          LET k == Len(temp_indices)
          IN  /\ temp_indices = Range(start_col, start_col + k)
              /\ Len(columns) >= 1 => k >= 1
              /\ start_col + k <= Len(columns)

\* a frame after several keys: scrolled to the right and one step back, with
\* several columns visible, the last column among them
C1_Witness ==
    /\ pc = "key"
    /\ start_col >= 2
    /\ Len(temp_indices) >= 2
    /\ nav_key = "left"
    /\ start_col + Len(temp_indices) = Len(columns)

(* C2: after any sequence of add_column, add_row, add_rows and sort_by     *)
(* calls, every stored row has as many values as the table has columns.    *)
C2_RowArity == WellFormed

(* C3: the viewer's key transitions: 'right' adds 1 to start_col if        *)
(* start_col + |visible| < total_cols and else leaves it; 'left' subtracts *)
(* 1 if start_col > 0 and else leaves it; any other key leaves it; 'q',    *)
(* and no other key, ends the loop; no viewer step changes the table.      *)
C3_KeyTransitions ==
    [][/\ pc # "idle" => columns' = columns /\ rows' = rows
       /\ (pc = "key" /\ pc' # "key") =>
             /\ nav_key' = "right" =>
                   start_col' = IF start_col + Len(temp_indices) < Len(columns)
                                THEN start_col + 1 ELSE start_col
             /\ nav_key' = "left" =>
                   start_col' = IF start_col > 0 THEN start_col - 1 ELSE start_col
             /\ nav_key' \notin {"right", "left"} => start_col' = start_col
             /\ (pc' = "exited") <=> (nav_key' = "q")
             /\ nav_key' # "q" => pc' = "frame"]_vars

\* the loop has ended on 'q' after the window was scrolled right as far as
\* it goes and a further 'right' was refused
C3_Witness ==
    /\ pc = "exited"
    /\ nav_key = "q"
    /\ start_col >= 1
    /\ last_action = "Action: End of columns reached"

(* C4: at a fixed terminal width, from start_col = 0, pressing 'right'     *)
(* reaches within total_cols - 1 presses a frame with start_col +          *)
(* |visible| = total_cols, and from that frame 'right' leaves start_col.   *)
C4_RightReachesEnd ==
    /\ [](pc = "key" /\ Len(columns) >= 1 /\ presses >= Len(columns) - 1
             => start_col + Len(temp_indices) = Len(columns))
    /\ [][(pc = "key" /\ start_col + Len(temp_indices) = Len(columns)
              /\ presses' = presses + 1) => start_col' = start_col]_vars

\* the example's 39 columns at width 80: four columns fit, the end is reached
\* after 35 presses and another 'right' was pressed there
C4_Witness ==
    /\ Len(columns) = ExampleCols
    /\ term_width = FallbackWidth
    /\ pc = "key"
    /\ Len(temp_indices) = 4
    /\ start_col + Len(temp_indices) = Len(columns)
    /\ presses > start_col
    /\ last_action = "Action: End of columns reached"

(* C5: add_row with a number of values other than the column count fails   *)
(* and leaves the rows and the columns as they were.                       *)
C5_AddRowArity ==
    [][\A args \in ArgLists :
          (Len(args) # Len(columns) /\ add_row(args)) =>
              /\ raised' = "ValueError: Expected columns"
              /\ rows' = rows
              /\ columns' = columns]_vars

\* a call with the wrong number of values has failed on a table with rows
C5_Witness ==
    /\ raised = "ValueError: Expected columns"
    /\ Len(columns) = 2
    /\ Len(rows) = 1
    /\ WellFormed

(* C6: for a column with overflow=truncate and max_width=m >= 1, m < 3     *)
(* included, the text the cell formatter produces for a cell, which is the *)
(* text placed in the rendered line, is no longer than m.                  *)
C6_TruncatedCellFits ==
    (Rendered /\ columns[1].overflow = "truncate" /\ columns[1].max_width >= 1) =>
        \A r \in 1..Len(rows) :
            LET cell == ProcessCell(rows[r][1], 0)
                lines == SplitLines(output)
                first == IF style_name = "box" THEN 3 ELSE 2
            IN  /\ Len(cell) = 1
                /\ lines[first + r] = FormatLine(cell, <<ColWidth(0)>>, <<0>>)
                /\ Len(cell[1]) <= columns[1].max_width

(* C7: sort_by with a key function that fails on some values of the sorted *)
(* column completes without raising and keeps every row.                   *)
C7_SortNeverAborts ==
    [][\A h \in Headers, reverse \in BOOLEAN :
          (WellFormed /\ FindColumn(h) # -1 /\ sort_by(h, "int", reverse)) =>
              /\ raised' = "none"
              /\ rows' \in Rearrangements(rows)]_vars

(* C8: for a column with overflow=wrap and max_width=m >= 1, every line    *)
(* the cell formatter produces is no longer than m (a word longer than m   *)
(* included), the formatter returns at least one line ("" for an empty     *)
(* text), and the column's width is max(len(header), m) whatever the rows. *)
C8_WrappedCell ==
    (Rendered /\ columns[1].overflow = "wrap" /\ columns[1].max_width >= 1) =>
        LET m == columns[1].max_width
            lines == SplitLines(output)
            first == IF style_name = "box" THEN 3 ELSE 2
        IN  /\ ColWidth(0) = Max(Len(columns[1].header), m)
            /\ \A i \in 1..Len(lines) : Len(lines[i]) = Max(Len(columns[1].header), m) + 4
            /\ \A r \in 1..Len(rows) :
                   LET cell == ProcessCell(rows[r][1], 0)
                   IN  /\ Len(cell) >= 1
                       /\ rows[r][1] = <<>> => cell = << <<>> >>
                       /\ \A l \in 1..Len(cell) : Len(cell[l]) <= m
                       /\ Len(lines) >= first + Len(cell)
                       /\ \A l \in 1..Len(cell) :
                              lines[first + l] = FormatLine(<<cell[l]>>, <<ColWidth(0)>>, <<0>>)

\* a cell holding a word longer than the cap, broken over several lines, in a
\* column whose header is shorter than the cap
C8_Witness ==
    /\ Rendered
    /\ columns[1].overflow = "wrap"
    /\ columns[1].max_width = 2
    /\ Len(columns[1].header) = 1
    /\ rows = << <<<<"a", "a", "a", " ">>>> >>
    /\ ProcessCell(rows[1][1], 0) = << <<"a", "a">>, <<"a">> >>

\* the kind of a rendered line, read from its first glyphs
LineKind(line) ==
    IF line[1] = "U+250C" THEN "top"
    ELSE IF line[1] = "U+2514" THEN "bottom"
    ELSE IF line[1] = "U+251C" THEN "separator"
    ELSE IF line[1] = "U+2502" THEN "cells"
    ELSE IF line[1] = "|" /\ line[2] = "-" THEN "separator"
    ELSE IF line[1] = "|" /\ line[2] = " " THEN "cells"
    ELSE "other"

\* the line kinds the assembly order prescribes for the rows from r on
RECURSIVE RowKinds(_, _)
RowKinds(r, ci) ==
    IF r > Len(rows) THEN <<>>
    ELSE Rep("cells", RowHeight(rows[r], ci))
         \o (IF horizontal_lines /\ r < Len(rows) THEN <<"separator">> ELSE <<>>)
         \o RowKinds(r + 1, ci)

C10_Rectangular ==
    Rendered =>
        LET lines == SplitLines(output)
            total == 1 + Sum([i \in 1..Len(subset) |-> ColWidth(subset[i]) + 3])
        IN  \A i \in 1..Len(lines) : Len(lines[i]) = total

====
